---- MODULE Spec2Model ----
(***************************************************************************)
(* Model of dashboard_marketing.py: a Streamlit script that is re-executed *)
(* from top to bottom on every user interaction.  One run is the sequence  *)
(* load -> sidebar widgets -> filter -> KPIs -> daily chart -> ad-set      *)
(* charts -> raw data table; st.stop() or an uncaught exception ends it    *)
(* earlier.                                                                *)
(*                                                                         *)
(* A DataFrame is a function from column names to equally long sequences   *)
(* of cell values.  Cells are integers: a text cell (campaign, ad set,     *)
(* gender, age) is the number of the distinct text it holds, a day is the  *)
(* number of the calendar day, amounts are whole currency units.  NaN is   *)
(* the missing cell (NaT after date parsing), Unparseable a text that is   *)
(* neither a date nor a number.  Arithmetic is exact: floating point       *)
(* rounding is not modelled.                                               *)
(***************************************************************************)
EXTENDS Integers, Sequences, FiniteSets, TLC

\* ---------------------------------------------------------------- bounds
MaxRows == 2      \* rows of the CSV file
MaxVal  == 1      \* largest amount / impressions / link clicks of a row
MaxDay  == 2      \* calendar days 1..MaxDay
MaxCat  == 2      \* distinct texts 1..MaxCat of a categorical column
MaxReads == 2     \* pd.read_csv executions followed in one process

\* ------------------------------------------------------------ cell values
NaN == 0 - 1
Unparseable == 0 - 2

CAMPAIGN == "Campaign name"
ADSET == "Ad Set Name"
GENDER == "Gender"
AGE == "Age"
DAY == "Day"
SPENT == "Amount spent (USD)"
IMPRESSIONS == "Impressions"
LINK_CLICKS == "Link clicks"

\* Columns that hold numbers in the export (the others hold text).
NumberCols == {SPENT, IMPRESSIONS, LINK_CLICKS, "Results", "Reach", "Clicks (all)",
               "Landing page views", "Content views", "Website content views"}

redundant_cols == {"Ads", "Ad name", "Delivery level", "Attribution setting",
                   "Objective.1", "Reporting starts", "Reporting ends"}

count_cols == {"Results", "Reach", "Impressions", "Link clicks", "Clicks (all)",
               "Landing page views", "Content views", "Website content views"}

\* ------------------------------------------------------ DataFrame helpers
NoTable == [c \in {} |-> <<>>]

Columns(data) == DOMAIN data

NRows(data) == IF Columns(data) = {} THEN 0
               ELSE Len(data[CHOOSE c \in Columns(data) : TRUE])

\* Series.count(): the number of non-missing cells.
count(s) == Cardinality({i \in DOMAIN s : s[i] # NaN})

\* DataFrame.drop(columns=...)
drop(data, cols) == [c \in Columns(data) \ cols |-> data[c]]

\* Series.fillna(0)
fillna(s) == [i \in DOMAIN s |-> IF s[i] = NaN THEN 0 ELSE s[i]]

\* read_csv's dtype of a column: float64/int64 when every non-missing cell
\* is a number (so also when every cell is missing), object otherwise.
IsNumeric(data, c) ==
    \/ count(data[c]) = 0
    \/ c \in NumberCols /\ \A i \in DOMAIN data[c] : data[c][i] # Unparseable

\* ------------------------------------------------- load_and_clean_data
\* Step 1: columns with no non-missing value.
cols_to_drop(data) == {c \in Columns(data) : count(data[c]) = 0}

DropEmpty(data) == drop(data, cols_to_drop(data))

\* Step 2: the redundant columns that exist.
existing_redundant_cols(data) == redundant_cols \cap Columns(data)

DropRedundant(data) == drop(data, existing_redundant_cols(data))

\* Step 3: zero-fill of the numeric columns.
numeric_cols(data) == {c \in Columns(data) : IsNumeric(data, c)}

FillNumeric(data) ==
    [c \in Columns(data) |-> IF c \in numeric_cols(data) THEN fillna(data[c]) ELSE data[c]]

\* A variant of Normalize that zero-fills before it drops the empty columns.
NormalizeFillFirst(raw) == DropRedundant(DropEmpty(FillNumeric(raw)))

\* The table after steps 1-3, in the order the code runs them.
Normalize(raw) == FillNumeric(DropRedundant(DropEmpty(raw)))

\* Step 4: pd.to_datetime and astype(int) raise on a missing column or on a
\* cell they cannot convert.
ConvertError(data) ==
    IF DAY \notin Columns(data) THEN "KeyError"
    ELSE IF \E i \in DOMAIN data[DAY] : data[DAY][i] = Unparseable THEN "ValueError"
    ELSE IF \E c \in count_cols \cap Columns(data) :
              \E i \in DOMAIN data[c] : data[c][i] \in {Unparseable, NaN} THEN "ValueError"
    ELSE "none"

\* The result of load_and_clean_data on the parsed file: the exception it
\* raises ("none" when it returns) and the table it returns.
load_and_clean_data(raw) ==
    LET data == Normalize(raw)
        err == ConvertError(data)
    IN [error |-> err, data |-> IF err = "none" THEN data ELSE NoTable]

\* ------------------------------------------------------ sidebar widgets
RequiredFilterCols == {CAMPAIGN, ADSET, GENDER, AGE}

\* Series.unique(): the distinct cells, the missing one included.
unique(s) == {s[i] : i \in DOMAIN s}

\* Series.min() / Series.max() skip NaT.
Dates(s) == {s[i] : i \in DOMAIN s} \ {NaN}

min_date(data) == CHOOSE d \in Dates(data[DAY]) : \A e \in Dates(data[DAY]) : d <= e

max_date(data) == CHOOSE d \in Dates(data[DAY]) : \A e \in Dates(data[DAY]) : d >= e

\* What st.multiselect can return: any subset of its options.
Multiselect(options) == SUBSET options

\* What st.date_input can return for a range value within [lo, hi]: both
\* ends once the range is picked, the first end alone while the user is
\* still picking the second.
DateInput(lo, hi) ==
    {r \in (lo..hi) \X (lo..hi) : r[1] <= r[2]} \cup {<<a>> : a \in lo..hi}

\* -------------------------------------------------------------- filtering
\* Series.isin(values): a missing cell matches a missing value of the list.
isin(v, values) == v \in values

\* Comparisons with NaT are False.
ge(v, bound) == v # NaN /\ v >= bound

\* A variant of le that leaves the end of the range out.
lt(v, bound) == v # NaN /\ v < bound

le(v, bound) == v # NaN /\ v <= bound

\* The boolean mask of lines 96-101 at row i.
Mask(data, sc, sa, sg, sage, range, i) ==
    /\ isin(data[CAMPAIGN][i], sc)
    /\ isin(data[ADSET][i], sa)
    /\ isin(data[GENDER][i], sg)
    /\ isin(data[AGE][i], sage)
    /\ ge(data[DAY][i], range[1])
    /\ le(data[DAY][i], range[2])

Indices(n) == [i \in 1..n |-> i]

\* The row numbers a mask keeps, in table order.
Kept(data, sc, sa, sg, sage, range) ==
    SelectSeq(Indices(NRows(data)), LAMBDA i : Mask(data, sc, sa, sg, sage, range, i))

\* df[mask]: a new table with the kept rows, the columns unchanged.
Take(data, idx) == [c \in Columns(data) |-> [k \in 1..Len(idx) |-> data[c][idx[k]]]]

Filtered(data, sc, sa, sg, sage, range) == Take(data, Kept(data, sc, sa, sg, sage, range))

\* -------------------------------------------------------------- metrics
RECURSIVE SumSeq(_)
SumSeq(s) == IF Len(s) = 0 THEN 0 ELSE Head(s) + SumSeq(Tail(s))

RECURSIVE Gcd(_, _)
Gcd(a, b) == IF b = 0 THEN a ELSE Gcd(b, a % b)

\* A float result: a finite fraction in lowest terms, inf or nan.
Finite(n, d) == [kind |-> "finite", num |-> n \div Gcd(n, d), den |-> d \div Gcd(n, d)]

Zero == [kind |-> "finite", num |-> 0, den |-> 1]

Inf == [kind |-> "inf", num |-> 1, den |-> 0]

NotANumber == [kind |-> "nan", num |-> 0, den |-> 0]

\* Series / Series on non-negative numbers: x/0 is inf, 0/0 is nan.
Div(n, d) == IF d # 0 THEN Finite(n, d) ELSE IF n = 0 THEN NotANumber ELSE Inf

\* float * k
Times(x, k) == IF x.kind = "finite" THEN Finite(x.num * k, x.den) ELSE x

\* A variant of GuardedDiv without the guard.
UnguardedDiv(n, d) == Div(n, d)

\* Lines 121-123: "a / b if b > 0 else 0".
GuardedDiv(n, d) == IF d > 0 THEN Div(n, d) ELSE Zero

KPIs(data) ==
    LET total_spent == SumSeq(data[SPENT])
        total_impressions == SumSeq(data[IMPRESSIONS])
        total_link_clicks == SumSeq(data[LINK_CLICKS])
    IN [total_spent |-> total_spent,
        total_impressions |-> total_impressions,
        total_link_clicks |-> total_link_clicks,
        cpc |-> GuardedDiv(total_spent, total_link_clicks),
        ctr |-> IF total_impressions > 0
                THEN Times(Div(total_link_clicks, total_impressions), 100) ELSE Zero,
        cpm |-> IF total_impressions > 0
                THEN Times(Div(total_spent, total_impressions), 1000) ELSE Zero]

\* ---------------------------------------------------------------- groupby
\* groupby(key) with the default dropna=True, sort=True: one group per
\* distinct non-missing key, in ascending key order.
GroupKeys(data, key) == {data[key][i] : i \in 1..NRows(data)} \ {NaN}

RECURSIVE SortedSeq(_)
SortedSeq(S) ==
    IF S = {} THEN <<>>
    ELSE LET m == CHOOSE x \in S : \A y \in S : x <= y
         IN <<m>> \o SortedSeq(S \ {m})

\* The rows of the group with key k, in table order.
GroupRows(data, key, k) == SelectSeq(Indices(NRows(data)), LAMBDA i : data[key][i] = k)

\* agg 'sum' of column col over the rows of the group with key k.
GroupSum(data, key, k, col) == SumSeq(Take(data, GroupRows(data, key, k))[col])

\* Line 136: daily spend and link clicks, one row per day.
DailyPerformance(data) ==
    LET days == SortedSeq(GroupKeys(data, DAY))
    IN [g \in 1..Len(days) |->
          [Day |-> days[g],
           spent |-> GroupSum(data, DAY, days[g], SPENT),
           link_clicks |-> GroupSum(data, DAY, days[g], LINK_CLICKS)]]

\* DataFrame.fillna(0) on a float cell: nan becomes 0, inf stays.
fillna_float(x) == IF x.kind = "nan" THEN Zero ELSE x

\* Lines 150-157: the sums per ad set, CPC and CTR by plain division, then
\* fillna(0) on the aggregate.
AdSetPerf(data) ==
    LET names == SortedSeq(GroupKeys(data, ADSET))
    IN [g \in 1..Len(names) |->
          LET spent == GroupSum(data, ADSET, names[g], SPENT)
              clicks == GroupSum(data, ADSET, names[g], LINK_CLICKS)
              impressions == GroupSum(data, ADSET, names[g], IMPRESSIONS)
          IN [name |-> names[g],
              spent |-> spent,
              link_clicks |-> clicks,
              impressions |-> impressions,
              CPC |-> fillna_float(Div(spent, clicks)),
              CTR |-> fillna_float(Times(Div(clicks, impressions), 100))]]

\* ------------------------------------------------------------ input files
RequiredCols == {CAMPAIGN, ADSET, GENDER, AGE, DAY, SPENT, IMPRESSIONS, LINK_CLICKS}

\* A CSV with the eight required columns, from its rows
\* <<campaign, ad set, gender, age, day, spent, impressions, link clicks>>.
FromRows(rows) ==
    [c \in RequiredCols |->
       [i \in 1..Len(rows) |->
          rows[i][CASE c = CAMPAIGN -> 1 [] c = ADSET -> 2 [] c = GENDER -> 3
                    [] c = AGE -> 4 [] c = DAY -> 5 [] c = SPENT -> 6
                    [] c = IMPRESSIONS -> 7 [] c = LINK_CLICKS -> 8]]]

TablesOf(R) == {FromRows(rows) : rows \in UNION {[1..n -> R] : n \in 0..MaxRows}}

Texts == (1..MaxCat) \cup {NaN}

Days == (1..MaxDay) \cup {NaN}

Amounts == 0..MaxVal

\* The reference row of an export.
PlainRow == <<1, 1, 1, 1, 1, 1, 1, 1>>

FieldValues(k) == IF k <= 4 THEN Texts ELSE IF k = 5 THEN Days ELSE Amounts

\* The rows of an export: the reference row, the rows that depart from it
\* in one field, and the row that spent, showed and earned nothing.
Rows ==
    UNION {{[PlainRow EXCEPT ![k] = v] : v \in FieldValues(k)} : k \in 1..8}
    \cup {<<1, 1, 1, 1, 1, 0, 0, 0>>}

\* Exports that vary the columns: each column is absent, entirely missing
\* ("empty"), missing in its first row ("partial"), complete ("full") or
\* complete with an unreadable last cell ("bad").
Cell(pattern, i, n, v) ==
    IF pattern = "empty" \/ (pattern = "partial" /\ i = 1) THEN NaN
    ELSE IF pattern = "bad" /\ i = n THEN Unparseable
    ELSE v

OptionalCols == {"Reach", "Ads", "Objective"}

Patterns(c) ==
    CASE c = DAY -> {"full", "partial", "empty", "bad"}
      [] c = GENDER -> {"full", "empty"}
      [] c = SPENT -> {"full", "partial", "empty"}
      [] c = LINK_CLICKS -> {"full", "empty"}
      [] c = "Reach" -> {"absent", "empty", "partial", "bad"}
      [] c = "Ads" -> {"absent", "empty", "full"}
      [] c = "Objective" -> {"absent", "empty", "partial"}
      [] OTHER -> {"full"}

ShapedCols == {DAY, GENDER, SPENT, LINK_CLICKS, "Reach", "Ads", "Objective"}

Shapes ==
    {[c \in RequiredCols \cup OptionalCols |-> IF c \in ShapedCols THEN v[c] ELSE "full"] :
       v \in {w \in [ShapedCols -> {"absent", "empty", "partial", "full", "bad"}] :
                \A c \in ShapedCols : w[c] \in Patterns(c)}}

FromShape(sh) ==
    [c \in {x \in DOMAIN sh : sh[x] # "absent"} |->
       [i \in 1..MaxRows |-> Cell(sh[c], i, MaxRows, 1)]]

ColumnTables == {FromShape(sh) : sh \in Shapes}

CsvFile(raw) == [kind |-> "csv", raw |-> raw]

Absent == [kind |-> "absent", raw |-> NoTable]

Unreadable == [kind |-> "unreadable", raw |-> NoTable]

Files ==
    {CsvFile(t) : t \in TablesOf(Rows) \cup ColumnTables}
    \cup {Absent, Unreadable}

\* The few files of the runs in which the file on disk is replaced.
ReplacedFiles ==
    {CsvFile(FromRows(<<<<1, 1, 1, 1, 1, v, 1, 1>>>>)) : v \in 0..MaxVal}
    \cup {CsvFile(FromShape([c \in RequiredCols |-> IF c = DAY THEN "bad" ELSE "full"])),
          Absent, Unreadable}

\* ------------------------------------------------------------------ state
VARIABLES
    file,                 \* what is on disk under 'ab_data.csv'
    cache,                \* st.cache_data's memo of load_and_clean_data, by file_path
    reads,                \* executions of pd.read_csv so far
    pc,                   \* the next step of the running script, or how the run ended
    exc,                  \* the exception raised in this run, "none" if none
    shown,                \* the elements this run has put on the page
    df,                   \* the cleaned table
    selected_campaign,
    selected_ad_set,
    selected_gender,
    selected_age,
    selected_date_range,
    df_filtered,
    kpi,                  \* the scalars of lines 116-123
    daily_performance,
    ad_set_perf

vars == <<file, cache, reads, pc, exc, shown, df, selected_campaign, selected_ad_set,
          selected_gender, selected_age, selected_date_range, df_filtered, kpi,
          daily_performance, ad_set_perf>>

selections == <<selected_campaign, selected_ad_set, selected_gender, selected_age,
                selected_date_range>>

results == <<df_filtered, kpi, daily_performance, ad_set_perf>>

file_path == "ab_data.csv"

NoCache == [p \in {} |-> NoTable]

NoKpi == <<>>

Ended == {"done", "error", "nodata", "crash"}

\* The state in which a run of the script starts.
RunStart ==
    /\ pc = "load"
    /\ exc = "none"
    /\ shown = {}
    /\ df = NoTable
    /\ selected_campaign = {}
    /\ selected_ad_set = {}
    /\ selected_gender = {}
    /\ selected_age = {}
    /\ selected_date_range = <<>>
    /\ df_filtered = NoTable
    /\ kpi = NoKpi
    /\ daily_performance = <<>>
    /\ ad_set_perf = <<>>

InitWith(F) ==
    /\ file \in F
    /\ cache = NoCache
    /\ reads = 0
    /\ RunStart

Init == InitWith(Files)

\* An uncaught exception ends the run where it is raised.
Raise(e) ==
    /\ pc' = "crash"
    /\ exc' = e

\* ------------------------------------------------------------------ steps
\* A variant of LoadCached that reads and cleans the file again.
LoadRereads ==
    /\ pc = "load"
    /\ file_path \in DOMAIN cache
    /\ file.kind = "csv"
    /\ load_and_clean_data(file.raw).error = "none"
    /\ reads' = reads + 1
    /\ cache' = [p \in {file_path} |-> load_and_clean_data(file.raw).data]
    /\ df' = load_and_clean_data(file.raw).data
    /\ pc' = "sidebar"
    /\ UNCHANGED <<file, exc, shown, selections, results>>

\* Line 47 when the memo holds the path: the cached table, no read.
LoadCached ==
    /\ pc = "load"
    /\ file_path \in DOMAIN cache
    /\ df' = cache[file_path]
    /\ pc' = "sidebar"
    /\ UNCHANGED <<file, cache, reads, exc, shown, selections, results>>

\* Lines 46-50 when it does not: read_csv and the cleaning run.  Only
\* FileNotFoundError is caught; a returned table is memoized, an exception
\* is not.
LoadFresh ==
    /\ pc = "load"
    /\ file_path \notin DOMAIN cache
    /\ reads < MaxReads
    /\ reads' = reads + 1
    /\ IF file.kind = "absent"
       THEN /\ exc' = "FileNotFoundError"
            /\ shown' = shown \cup {"error"}
            /\ pc' = "error"
            /\ UNCHANGED <<cache, df>>
       ELSE IF file.kind = "unreadable"
       THEN /\ Raise("PermissionError")
            /\ UNCHANGED <<cache, df, shown>>
       ELSE LET r == load_and_clean_data(file.raw)
            IN IF r.error # "none"
               THEN /\ Raise(r.error)
                    /\ UNCHANGED <<cache, df, shown>>
               ELSE /\ cache' = [p \in {file_path} |-> r.data]
                    /\ df' = r.data
                    /\ pc' = "sidebar"
                    /\ UNCHANGED <<exc, shown>>
    /\ UNCHANGED <<file, selections, results>>

\* Lines 54-92: the five widgets.  A column the cleaning dropped raises
\* KeyError.
Sidebar ==
    /\ pc = "sidebar"
    /\ IF ~(RequiredFilterCols \subseteq Columns(df))
       THEN /\ Raise("KeyError")
            /\ UNCHANGED <<shown, selections>>
       ELSE /\ selected_campaign' \in Multiselect(unique(df[CAMPAIGN]))
            /\ selected_ad_set' \in Multiselect(unique(df[ADSET]))
            /\ selected_gender' \in Multiselect(unique(df[GENDER]))
            /\ selected_age' \in Multiselect(unique(df[AGE]))
            /\ selected_date_range' \in DateInput(min_date(df), max_date(df))
            /\ shown' = shown \cup {"sidebar"}
            /\ pc' = "filter"
            /\ UNCHANGED exc
    /\ UNCHANGED <<file, cache, reads, df, results>>

\* A variant of ApplyFilters that rebinds df to the filtered rows.
ApplyFiltersInPlace ==
    /\ pc = "filter"
    /\ Len(selected_date_range) = 2
    /\ df' = Filtered(df, selected_campaign, selected_ad_set, selected_gender,
                      selected_age, selected_date_range)
    /\ df_filtered' = df'
    /\ shown' = shown \cup {IF NRows(df') = 0 THEN "warning" ELSE "title"}
    /\ pc' = IF NRows(df') = 0 THEN "nodata" ELSE "kpi"
    /\ UNCHANGED <<file, cache, reads, exc, selections, kpi, daily_performance, ad_set_perf>>

\* Lines 95-110: the mask, the empty check, the title.
ApplyFilters ==
    /\ pc = "filter"
    /\ IF Len(selected_date_range) < 2
       THEN /\ Raise("IndexError")
            /\ UNCHANGED <<shown, df_filtered>>
       ELSE LET out == Filtered(df, selected_campaign, selected_ad_set, selected_gender,
                                selected_age, selected_date_range)
            IN /\ df_filtered' = out
               /\ IF NRows(out) = 0
                  THEN /\ shown' = shown \cup {"warning"}
                       /\ pc' = "nodata"
                  ELSE /\ shown' = shown \cup {"title"}
                       /\ pc' = "kpi"
               /\ UNCHANGED exc
    /\ UNCHANGED <<file, cache, reads, df, selections, kpi, daily_performance, ad_set_perf>>

\* Lines 114-129.
ShowKPIs ==
    /\ pc = "kpi"
    /\ IF ~({SPENT, IMPRESSIONS, LINK_CLICKS} \subseteq Columns(df_filtered))
       THEN /\ Raise("KeyError")
            /\ UNCHANGED <<shown, kpi>>
       ELSE /\ kpi' = <<KPIs(df_filtered)>>
            /\ shown' = shown \cup {"kpis"}
            /\ pc' = "temporal"
            /\ UNCHANGED exc
    /\ UNCHANGED <<file, cache, reads, df, selections, df_filtered, daily_performance,
                   ad_set_perf>>

\* Lines 136-142.
ShowTemporal ==
    /\ pc = "temporal"
    /\ daily_performance' = DailyPerformance(df_filtered)
    /\ shown' = shown \cup {"temporal"}
    /\ pc' = "adset"
    /\ UNCHANGED <<file, cache, reads, exc, df, selections, df_filtered, kpi, ad_set_perf>>

\* Lines 146-168: the ad-set aggregate, the CPC bar chart and the budget pie.
ShowAdSets ==
    /\ pc = "adset"
    /\ ad_set_perf' = AdSetPerf(df_filtered)
    /\ shown' = shown \cup {"cpc", "budget"}
    /\ pc' = "rawdata"
    /\ UNCHANGED <<file, cache, reads, exc, df, selections, df_filtered, kpi,
                   daily_performance>>

\* Lines 172-173.
ShowRawData ==
    /\ pc = "rawdata"
    /\ shown' = shown \cup {"rawdata"}
    /\ pc' = "done"
    /\ UNCHANGED <<file, cache, reads, exc, df, selections, results>>

\* The next interaction: Streamlit runs the script again from the top.  The
\* memo outlives the run, the script's variables do not.
Rerun ==
    /\ pc \in Ended
    /\ pc' = "load"
    /\ exc' = "none"
    /\ shown' = {}
    /\ df' = NoTable
    /\ selected_campaign' = {}
    /\ selected_ad_set' = {}
    /\ selected_gender' = {}
    /\ selected_age' = {}
    /\ selected_date_range' = <<>>
    /\ df_filtered' = NoTable
    /\ kpi' = NoKpi
    /\ daily_performance' = <<>>
    /\ ad_set_perf' = <<>>
    /\ UNCHANGED <<file, cache, reads>>

\* Somebody replaces the file on disk between two runs.
ReplaceFile(F) ==
    /\ pc \in Ended
    /\ file' \in F \ {file}
    /\ UNCHANGED <<cache, reads, pc, exc, shown, df, selections, results>>

Script ==
    \/ LoadCached
    \/ LoadFresh
    \/ Sidebar
    \/ ApplyFilters
    \/ ShowKPIs
    \/ ShowTemporal
    \/ ShowAdSets
    \/ ShowRawData
    \/ Rerun

Next == Script

Spec == Init /\ [][Next]_vars

InitCache == InitWith(ReplacedFiles)

NextCache == Script \/ ReplaceFile(ReplacedFiles)

SpecCache == InitCache /\ [][NextCache]_vars

\* ----------------------------------------------------------------- claims
\* Helpers of the statements below: they restate sums, ratios and row
\* selection without the operators of the model.
RECURSIVE TotalUpTo(_, _)
TotalUpTo(s, n) == IF n = 0 THEN 0 ELSE s[n] + TotalUpTo(s, n - 1)

Total(s) == TotalUpTo(s, Len(s))

RECURSIVE FieldTotalUpTo(_, _, _)
FieldTotalUpTo(groups, f, n) ==
    IF n = 0 THEN 0 ELSE groups[n][f] + FieldTotalUpTo(groups, f, n - 1)

FieldTotal(groups, f) == FieldTotalUpTo(groups, f, Len(groups))

\* x is the number n/d, or 0 when d is 0.
IsRatioOrZero(x, n, d) ==
    /\ x.kind = "finite"
    /\ x.den > 0
    /\ IF d = 0 THEN x.num = 0 ELSE x.num * d = n * x.den

FilterDone == shown \cap {"title", "warning"} # {}

Row(data, i) == [c \in Columns(data) |-> data[c][i]]

\* Row i of the cleaned table passes the five predicates of the claim.
Passes(i) ==
    /\ df[CAMPAIGN][i] \in selected_campaign
    /\ df[ADSET][i] \in selected_ad_set
    /\ df[GENDER][i] \in selected_gender
    /\ df[AGE][i] \in selected_age
    /\ df[DAY][i] # NaN
    /\ selected_date_range[1] <= df[DAY][i]
    /\ df[DAY][i] <= selected_date_range[2]

Passing == {i \in 1..NRows(df) : Passes(i)}

DefaultSelections ==
    /\ selected_campaign = unique(df[CAMPAIGN])
    /\ selected_ad_set = unique(df[ADSET])
    /\ selected_gender = unique(df[GENDER])
    /\ selected_age = unique(df[AGE])
    /\ selected_date_range = <<min_date(df), max_date(df)>>

SomeSelectionEmpty ==
    \/ selected_campaign = {}
    \/ selected_ad_set = {}
    \/ selected_gender = {}
    \/ selected_age = {}

\* A step from a state whose memo holds the path reads nothing, keeps the
\* memo, and if it is the load it hands out the memoized table.
ServedFromMemo ==
    file_path \in DOMAIN cache =>
        /\ reads' = reads
        /\ cache' = cache
        /\ (pc = "load" /\ pc' # "load") => (pc' = "sidebar" /\ df' = cache[file_path])

\* A step keeps the memoized table and, unless it is the load or the
\* start of the next run, the table the script holds.
TableKept ==
    /\ (file_path \in DOMAIN cache => cache' = cache)
    /\ ((pc # "load" /\ pc' # "load") => df' = df)

\* C1: in the ad-set aggregate every group has CPC 0 when its link clicks
\* sum to 0 and CTR 0 when its impressions sum to 0, whatever its spend or
\* link clicks, and no group carries a non-finite CPC or CTR.
C1_AdSetRatiosZeroGuarded ==
    "cpc" \in shown =>
        \A g \in DOMAIN ad_set_perf :
            /\ ad_set_perf[g].link_clicks = 0 => ad_set_perf[g].CPC = Zero
            /\ ad_set_perf[g].impressions = 0 => ad_set_perf[g].CTR = Zero
            /\ ad_set_perf[g].CPC.kind = "finite"
            /\ ad_set_perf[g].CTR.kind = "finite"

\* C2: for a non-empty filtered table the three totals are the column sums
\* over the filtered rows, CPC = spend / link clicks, CTR = 100 * link
\* clicks / impressions, CPM = 1000 * spend / impressions, and each ratio
\* is exactly 0 when its denominator is 0.
C2_ScalarKPIs ==
    "kpis" \in shown =>
        LET spent == Total(df_filtered[SPENT])
            impressions == Total(df_filtered[IMPRESSIONS])
            clicks == Total(df_filtered[LINK_CLICKS])
        IN /\ NRows(df_filtered) > 0
           /\ kpi[1].total_spent = spent
           /\ kpi[1].total_impressions = impressions
           /\ kpi[1].total_link_clicks = clicks
           /\ IsRatioOrZero(kpi[1].cpc, spent, clicks)
           /\ IsRatioOrZero(kpi[1].ctr, 100 * clicks, impressions)
           /\ IsRatioOrZero(kpi[1].cpm, 1000 * spent, impressions)

\* A run that computed the KPIs of a table with spend but no link click.
C2_Witness ==
    /\ "kpis" \in shown
    /\ kpi[1].total_link_clicks = 0
    /\ kpi[1].total_spent > 0
    /\ kpi[1].cpc = Zero

\* C3: the filtered table holds exactly the rows that pass all five
\* predicates (memberships in the four selections, start <= day <= end
\* with both ends included), in their original order.
C3_FilterIsConjunction ==
    FilterDone =>
        /\ Columns(df_filtered) = Columns(df)
        /\ NRows(df_filtered) = Cardinality(Passing)
        /\ \A i \in Passing :
             Row(df_filtered, Cardinality({j \in Passing : j <= i})) = Row(df, i)

\* A run whose filter kept a row whose day is the end of the range and
\* dropped another row.
C3_Witness ==
    /\ FilterDone
    /\ NRows(df) = 2
    /\ NRows(df_filtered) = 1
    /\ df_filtered[DAY][1] = selected_date_range[2]
    /\ selected_date_range[1] < selected_date_range[2]

\* C4: whenever one categorical selection is empty the run ends in the
\* no-data state (warning shown, run stopped) without an error and without
\* any KPI, aggregate or chart, whatever the other filter values.
C4_EmptySelectionGivesNoData ==
    (pc \in Ended /\ "sidebar" \in shown /\ SomeSelectionEmpty) =>
        /\ pc = "nodata"
        /\ exc = "none"
        /\ shown = {"sidebar", "warning"}
        /\ NRows(df_filtered) = 0
        /\ kpi = NoKpi
        /\ daily_performance = <<>>
        /\ ad_set_perf = <<>>

\* C5: with every categorical selection equal to all distinct values of
\* its column and the date range equal to [min day, max day] the filtered
\* table is the cleaned table, rows with missing values included.
C5_DefaultsKeepEveryRow ==
    (FilterDone /\ DefaultSelections) => df_filtered = df

\* C6: a column of the file with no non-missing value is absent from the
\* cleaned table, and a column with a non-missing value that is not in the
\* redundant list is present.
C6_EmptyColumnsDropped ==
    (file.kind = "csv" /\ file_path \in DOMAIN cache) =>
        \A c \in Columns(file.raw) :
            /\ (\A i \in DOMAIN file.raw[c] : file.raw[c][i] = NaN)
                 => c \notin Columns(cache[file_path])
            /\ ((\E i \in DOMAIN file.raw[c] : file.raw[c][i] # NaN) /\ c \notin redundant_cols)
                 => c \in Columns(cache[file_path])

\* A cleaned table whose file had an entirely missing numeric column and a
\* numeric column with one missing cell, which the cleaning zero-filled.
C6_Witness ==
    /\ file.kind = "csv"
    /\ file_path \in DOMAIN cache
    /\ "Reach" \in Columns(file.raw)
    /\ \A i \in DOMAIN file.raw["Reach"] : file.raw["Reach"][i] = NaN
    /\ NRows(file.raw) > 0
    /\ file.raw[SPENT][1] = NaN
    /\ SPENT \in Columns(cache[file_path])
    /\ cache[file_path][SPENT][1] = 0

\* C7: once a load of the path has succeeded no later step reads the file
\* or replaces the memo, and every later load returns the memoized table,
\* whatever is on disk by then.
C7_LoadedOnce == [][ServedFromMemo]_vars

\* A later run that got the memoized table although the file had been
\* replaced by one that no longer loads to it.
C7_Witness ==
    /\ pc = "sidebar"
    /\ file_path \in DOMAIN cache
    /\ df = cache[file_path]
    /\ \/ file.kind # "csv"
       \/ load_and_clean_data(file.raw).data # df

\* C8: every failed load (file absent, unreadable or malformed) ends the
\* run in the user-facing error state, with no uncaught exception and
\* nothing else on the page.
C8_FailedLoadEndsInErrorState ==
    (exc # "none" /\ Columns(df) = {}) => (pc = "error" /\ shown = {"error"})

\* C9: no step after the load changes the cleaned table: the memoized
\* table never changes, and within a run the table the script holds stays
\* what the load returned.
C9_CleanedTableImmutable == [][TableKept]_vars

\* A finished run whose filter dropped rows while the cleaned table still
\* is the memoized one.
C9_Witness ==
    /\ pc = "done"
    /\ df = cache[file_path]
    /\ NRows(df_filtered) < NRows(df)

\* C10: the per-group sums of the ad-set aggregate add up to the scalar
\* totals (spend, link clicks, impressions) and the per-day sums of the
\* daily aggregate add up to total spend and total link clicks.
C10_GroupsAddUpToTotals ==
    "cpc" \in shown =>
        /\ FieldTotal(ad_set_perf, "spent") = kpi[1].total_spent
        /\ FieldTotal(ad_set_perf, "link_clicks") = kpi[1].total_link_clicks
        /\ FieldTotal(ad_set_perf, "impressions") = kpi[1].total_impressions
        /\ FieldTotal(daily_performance, "spent") = kpi[1].total_spent
        /\ FieldTotal(daily_performance, "link_clicks") = kpi[1].total_link_clicks

====
